---------------------------- MODULE Spec2Model ----------------------------
(***************************************************************************)
(* Model of lib/unit.js (the Unit value type) and of the duplicate-load    *)
(* guard of the module aggregator (index.js).                              *)
(*                                                                         *)
(* JavaScript Numbers are IEEE-754 binary64 values.  They are modelled     *)
(* bit-exactly: a finite Number is a sign, an odd significand below 2^53   *)
(* and a binary exponent, and every arithmetic step of the code (product,  *)
(* quotient, toFixed, parseInt, parseFloat) rounds as the language         *)
(* defines.  Significands do not fit TLC's 32-bit integers, so naturals    *)
(* are sequences of base-10^4 limbs, least significant first (<<>> is      *)
(* zero).  All inputs keep every intermediate result inside the normal     *)
(* range of binary64, so overflow to Infinity and subnormals are not       *)
(* modelled.  Intermediate values are handed on as operator arguments.     *)
(***************************************************************************)
EXTENDS Integers, Sequences, FiniteSets

(***************************************************************************)
(* Natural numbers of arbitrary size.                                      *)
(***************************************************************************)
Base == 10 ^ 4

RECURSIVE Trim(_)
Trim(a) ==
  IF a = <<>> THEN <<>>
  ELSE IF a[Len(a)] = 0 THEN Trim(SubSeq(a, 1, Len(a) - 1))
  ELSE a

RECURSIVE BigOfInt(_)
BigOfInt(n) == IF n = 0 THEN <<>> ELSE <<n % Base>> \o BigOfInt(n \div Base)

RECURSIVE CmpAt(_, _, _)
CmpAt(a, b, i) ==
  IF i = 0 THEN 0
  ELSE IF a[i] < b[i] THEN -1
  ELSE IF a[i] > b[i] THEN 1
  ELSE CmpAt(a, b, i - 1)

\* -1, 0 or 1 as a < b, a = b, a > b
BigCmp(a, b) ==
  IF Len(a) < Len(b) THEN -1
  ELSE IF Len(a) > Len(b) THEN 1
  ELSE CmpAt(a, b, Len(a))

RECURSIVE AddAt(_, _, _, _)
AddAt(a, b, i, c) ==
  IF i > Len(a) /\ i > Len(b)
  THEN (IF c = 0 THEN <<>> ELSE <<c>>)
  ELSE LET s == (IF i <= Len(a) THEN a[i] ELSE 0)
                + (IF i <= Len(b) THEN b[i] ELSE 0) + c
       IN  <<s % Base>> \o AddAt(a, b, i + 1, s \div Base)

BigAdd(a, b) == AddAt(a, b, 1, 0)

RECURSIVE SubAt(_, _, _, _)
SubAt(a, b, i, c) ==
  IF i > Len(a) THEN <<>>
  ELSE LET s == a[i] - (IF i <= Len(b) THEN b[i] ELSE 0) - c
       IN  IF s < 0 THEN <<s + Base>> \o SubAt(a, b, i + 1, 1)
           ELSE <<s>> \o SubAt(a, b, i + 1, 0)

\* a - b, for a >= b
BigSub(a, b) == Trim(SubAt(a, b, 1, 0))

RECURSIVE MulSmallAt(_, _, _, _)
MulSmallAt(a, k, i, c) ==
  IF i > Len(a) THEN BigOfInt(c)
  ELSE LET s == a[i] * k + c
       IN  <<s % Base>> \o MulSmallAt(a, k, i + 1, s \div Base)

\* a * k, for 0 <= k <= 200000
BigMulSmall(a, k) == IF k = 0 THEN <<>> ELSE MulSmallAt(a, k, 1, 0)

\* a * Base^n
BigShiftLimbs(a, n) == IF a = <<>> THEN <<>> ELSE [i \in 1..n |-> 0] \o a

RECURSIVE MulAt(_, _, _)
MulAt(a, b, i) ==
  IF i > Len(b) THEN <<>>
  ELSE BigAdd(BigShiftLimbs(BigMulSmall(a, b[i]), i - 1), MulAt(a, b, i + 1))

BigMul(a, b) == MulAt(a, b, 1)

\* the quotient limbs rest[1] with the next one, q, and the remainder rest[2]
PushQuot(rest, q) == <<Append(rest[1], q), rest[2]>>

TrimQuot(qr) == <<Trim(qr[1]), qr[2]>>

RECURSIVE DivSmallAt(_, _, _, _)
DivSmallAt(a, k, i, r) ==
  IF i = 0 THEN <<<<>>, r>>
  ELSE PushQuot(DivSmallAt(a, k, i - 1, (r * Base + a[i]) % k),
                (r * Base + a[i]) \div k)

\* <<a \div k, a % k>>, for 0 < k <= 200000
BigDivModSmall(a, k) == TrimQuot(DivSmallAt(a, k, Len(a), 0))

\* the largest q in lo..hi with q * b <= r (lo satisfies it)
RECURSIVE QuotLimb(_, _, _, _)
QuotLimb(r, b, lo, hi) ==
  IF lo = hi THEN lo
  ELSE LET mid == (lo + hi + 1) \div 2
       IN  IF BigCmp(BigMulSmall(b, mid), r) <= 0
           THEN QuotLimb(r, b, mid, hi)
           ELSE QuotLimb(r, b, lo, mid - 1)

\* bounds of r \div b for r < b * Base, from the leading limbs
QuotLow(r, b) ==
  IF Len(r) < Len(b) THEN 0
  ELSE LET top == IF Len(r) > Len(b) THEN r[Len(r)] * Base + r[Len(r) - 1]
                  ELSE r[Len(r)]
       IN  top \div (b[Len(b)] + 1)

QuotHigh(r, b) ==
  IF Len(r) < Len(b) THEN 0
  ELSE LET top == IF Len(r) > Len(b) THEN r[Len(r)] * Base + r[Len(r) - 1]
                  ELSE r[Len(r)]
           q   == (top + 1) \div b[Len(b)]
       IN  IF q > Base - 1 THEN Base - 1 ELSE q

\* long division, a limb at a time: cur is the remainder so far with the
\* limb a[i] brought down, q the limb of the quotient it gives
RECURSIVE DivAt(_, _, _, _)
DivEmit(a, b, i, cur, q) ==
  PushQuot(DivAt(a, b, i - 1, BigSub(cur, BigMulSmall(b, q))), q)

DivStep(a, b, i, cur) ==
  DivEmit(a, b, i, cur, QuotLimb(cur, b, QuotLow(cur, b), QuotHigh(cur, b)))

DivAt(a, b, i, r) ==
  IF i = 0 THEN <<<<>>, r>> ELSE DivStep(a, b, i, Trim(<<a[i]>> \o r))

\* long division by an integer d < 2 * 10^7, two decimal digits at a time
RECURSIVE DivIntAt(_, _, _, _)
DivIntAt(a, d, i, r) ==
  IF i = 0 THEN <<<<>>, r>>
  ELSE LET hi == r * 100 + (a[i] \div 100)
           lo == (hi % d) * 100 + (a[i] % 100)
       IN  PushQuot(DivIntAt(a, d, i - 1, lo % d),
                    (hi \div d) * 100 + (lo \div d))

\* <<a \div b, a % b>>, for b > 0
IntQuot(qr) == <<Trim(qr[1]), BigOfInt(qr[2])>>

BigDivMod(a, b) ==
  IF Len(b) = 1 THEN IntQuot(DivSmallAt(a, b[1], Len(a), 0))
  ELSE IF Len(b) = 2 /\ b[2] < 2000
  THEN IntQuot(DivIntAt(a, b[2] * Base + b[1], Len(a), 0))
  ELSE TrimQuot(DivAt(a, b, Len(a), <<>>))

RECURSIVE Pow2(_)
Pow2(i) == IF i <= 14 THEN BigOfInt(2 ^ i) ELSE BigMulSmall(Pow2(i - 14), 2 ^ 14)

\* the table of the powers of two the arithmetic below uses
Pow2Big == [i \in 0..(140 + 0) |-> Pow2(i)]

RECURSIVE BitLenFrom(_, _)
BitLenFrom(a, i) == IF BigCmp(a, Pow2Big[i]) < 0 THEN i ELSE BitLenFrom(a, i + 1)

\* the number of bits of a: the least i with a < 2^i
BitLen(a) ==
  IF a = <<>> THEN 0 ELSE BitLenFrom(a, ((Len(a) - 1) * 13287) \div 1000)

BigIsOdd(a) == a # <<>> /\ a[1] % 2 = 1

\* a * 2^n
RECURSIVE ShiftLeft(_, _)
ShiftLeft(a, n) ==
  IF n <= 14 THEN BigMulSmall(a, 2 ^ n)
  ELSE ShiftLeft(BigMulSmall(a, 2 ^ 14), n - 14)

\* <<a \div 2^n, whether a % 2^n is nonzero>>
RECURSIVE ShiftRight(_, _)
StickyOr(rest, lost) == <<rest[1], rest[2] \/ lost>>

ShiftRightOn(qr, n) == StickyOr(ShiftRight(qr[1], n), qr[2] # 0)

ShiftRight(a, n) ==
  IF a = <<>> \/ n = 0 THEN <<a, FALSE>>
  ELSE ShiftRightOn(BigDivModSmall(a, 2 ^ (IF n <= 14 THEN n ELSE 14)),
                    IF n <= 14 THEN 0 ELSE n - 14)

\* how many times 2 divides the integer r > 0
RECURSIVE Twos(_)
Twos(r) == IF r % 2 = 1 THEN 0 ELSE 1 + Twos(r \div 2)

\* <<the odd part of a, n + how many times 2 divides a>>, for a > 0
RECURSIVE StripTwos(_, _)
StripTwosOn(a, n, qr) ==
  IF qr[2] = 0 THEN StripTwos(qr[1], n + 14)
  ELSE <<BigDivModSmall(a, 2 ^ Twos(qr[2]))[1], n + Twos(qr[2])>>

StripTwos(a, n) ==
  IF BigIsOdd(a) THEN <<a, n>> ELSE StripTwosOn(a, n, BigDivModSmall(a, 2 ^ 14))

\* a * 10^n
BigMulPow10(a, n) == BigShiftLimbs(BigMulSmall(a, 10 ^ (n % 4)), n \div 4)

RECURSIVE Pow5(_)
Pow5(n) == IF n <= 8 THEN BigOfInt(5 ^ n) ELSE BigMulSmall(Pow5(n - 7), 5 ^ 7)

(***************************************************************************)
(* Numbers: binary64.  A finite nonzero Number is                          *)
(* [k |-> "num", neg, m, e] with m odd, m < 2^53, and value m * 2^e; zero  *)
(* has m = <<>> and e = 0 and keeps its sign.  NaN is the one other value  *)
(* the code can produce.  undefined and strings are the other JavaScript   *)
(* values the operations are handed.                                       *)
(***************************************************************************)
NaN == [k |-> "NaN"]
Undefined == [k |-> "undefined"]
Str(s) == [k |-> "string", s |-> s]
Zero(neg) == [k |-> "num", neg |-> neg, m |-> <<>>, e |-> 0]

\* the Number m * 2^e, for 0 < m < 2^53
FinOf(neg, st) == [k |-> "num", neg |-> neg, m |-> st[1], e |-> st[2]]

Fin(neg, m, e) == FinOf(neg, StripTwos(m, e))

IsNaN(x) == x.k = "NaN"
IsZero(x) == x.k = "num" /\ x.m = <<>>

\* the Number nearest to P * 2^E (ties to even); sticky says that P is the
\* integer part of a value with a nonzero fraction below it
\* q is the 53-bit prefix, guard the bit below it, sticky whether any bit
\* below the guard is set: round up on more than half, or on half to even
RoundTies(neg, q, E, guard, sticky) ==
  Fin(neg, IF guard /\ (sticky \/ BigIsOdd(q)) THEN BigAdd(q, <<1>>) ELSE q, E)

RoundGuard(neg, s1, E, sticky) ==
  RoundTies(neg, BigDivModSmall(s1[1], 2)[1], E, BigIsOdd(s1[1]), s1[2] \/ sticky)

RoundBits(neg, P, E, sticky, L) ==
  IF L <= 53 THEN Fin(neg, P, E)
  ELSE RoundGuard(neg, ShiftRight(P, L - 54), E + L - 53, sticky)

Round53(neg, P, E, sticky) ==
  IF P = <<>> THEN Zero(neg) ELSE RoundBits(neg, P, E, sticky, BitLen(P))

\* the Number nearest to (P / Q) * 2^E, for Q > 0
RoundQr(neg, qr, E) == Round53(neg, qr[1], E, qr[2] # <<>>)

\* P is shifted left until the quotient has at least 55 bits
RoundQuotBy(neg, P, Q, E, d) ==
  IF d > 0 THEN RoundQr(neg, BigDivMod(ShiftLeft(P, d), Q), E - d)
  ELSE RoundQr(neg, BigDivMod(P, Q), E)

RoundQuot(neg, P, Q, E) ==
  IF P = <<>> THEN Zero(neg)
  ELSE RoundQuotBy(neg, P, Q, E, 56 + BitLen(Q) - BitLen(P))

\* ToNumber: undefined converts to NaN
ToNumber(v) == IF v.k \in {"num", "NaN"} THEN v ELSE NaN

\* x * y
NumMul(x, y) ==
  IF IsNaN(x) \/ IsNaN(y) THEN NaN
  ELSE IF IsZero(x) \/ IsZero(y) THEN Zero(x.neg # y.neg)
  ELSE Round53(x.neg # y.neg, BigMul(x.m, y.m), x.e + y.e, FALSE)

\* x / y, for y # 0
NumDiv(x, y) ==
  IF IsNaN(x) \/ IsNaN(y) THEN NaN
  ELSE IF IsZero(x) THEN Zero(x.neg # y.neg)
  ELSE RoundQuot(x.neg # y.neg, x.m, y.m, x.e - y.e)

\* the Number a decimal literal denotes: D * 10^x, rounded to nearest
DecimalToNum(neg, D, x) ==
  IF x >= 0 THEN Round53(neg, BigMul(D, Pow5(x)), x, FALSE)
  ELSE RoundQuot(neg, D, Pow5(-x), x)

\* x <= 0 as the language compares Numbers (false for NaN)
NumLeqZero(x) == x.k = "num" /\ (x.m = <<>> \/ x.neg)

\* |x| >= |y| for finite nonzero x, y
AbsGeqAt(x, y, bx, by) ==
  IF bx # by THEN bx > by
  ELSE IF x.e >= y.e THEN BigCmp(ShiftLeft(x.m, x.e - y.e), y.m) >= 0
  ELSE BigCmp(x.m, ShiftLeft(y.m, y.e - x.e)) >= 0

AbsGeq(x, y) == AbsGeqAt(x, y, BitLen(x.m) + x.e, BitLen(y.m) + y.e)

\* x = y as the language compares Numbers with ===
NumEq(x, y) ==
  /\ x.k = "num"
  /\ y.k = "num"
  /\ x.m = y.m
  /\ x.e = y.e
  /\ (x.m = <<>> \/ x.neg = y.neg)

(***************************************************************************)
(* Strings are sequences of one-character strings.                         *)
(***************************************************************************)
DigitChars == <<"0", "1", "2", "3", "4", "5", "6", "7", "8", "9">>

IsDigit(c) == c \in {"0", "1", "2", "3", "4", "5", "6", "7", "8", "9"}

DigitValue == [c \in {DigitChars[d] : d \in 1..10} |->
                 (CHOOSE d \in 1..10 : DigitChars[d] = c) - 1]

DigitVal(c) == DigitValue[c]

LimbChars(l) ==
  << DigitChars[(l \div 1000) + 1], DigitChars[((l \div 100) % 10) + 1],
     DigitChars[((l \div 10) % 10) + 1], DigitChars[(l % 10) + 1] >>

RECURSIVE BigCharsAt(_, _)
BigCharsAt(a, i) == IF i = 0 THEN <<>> ELSE LimbChars(a[i]) \o BigCharsAt(a, i - 1)

RECURSIVE StripLeadingZeros(_)
StripLeadingZeros(cs) ==
  IF Len(cs) > 1 /\ cs[1] = "0" THEN StripLeadingZeros(Tail(cs)) ELSE cs

RECURSIVE StripTrailingZeros(_)
StripTrailingZeros(cs) ==
  IF Len(cs) > 1 /\ cs[Len(cs)] = "0"
  THEN StripTrailingZeros(SubSeq(cs, 1, Len(cs) - 1))
  ELSE cs

\* the decimal digits of a natural
BigChars(a) == IF a = <<>> THEN <<"0">> ELSE StripLeadingZeros(BigCharsAt(a, Len(a)))

RECURSIVE SmallVal(_)
SmallVal(z) ==
  IF z = <<>> THEN 0
  ELSE SmallVal(SubSeq(z, 1, Len(z) - 1)) * 10 + DigitVal(z[Len(z)])

RECURSIVE DigitLimbs(_)
DigitLimbs(z) ==
  IF Len(z) <= 4 THEN <<SmallVal(z)>>
  ELSE <<SmallVal(SubSeq(z, Len(z) - 3, Len(z)))>>
       \o DigitLimbs(SubSeq(z, 1, Len(z) - 4))

\* the natural a string of decimal digits denotes
DigitsToBig(z) == Trim(DigitLimbs(z))

RECURSIVE DigitPrefix(_)
DigitPrefix(cs) ==
  IF cs # <<>> /\ IsDigit(cs[1]) THEN <<cs[1]>> \o DigitPrefix(Tail(cs)) ELSE <<>>

Drop(cs, n) == SubSeq(cs, n + 1, Len(cs))

TenPow21 == DecimalToNum(FALSE, <<1>>, 21)

Sign(neg) == IF neg THEN <<"-">> ELSE <<>>

\* Number::toString of NaN and of an integer-valued x: the shortest digits
\* s (k of them) whose value s * 10^(n-k) is x, followed by n-k zeros when
\* n <= 21 and in exponential notation otherwise
DenotesSame(x, s, zeros) ==
  Round53(FALSE, BigMulPow10(s, zeros), 0, FALSE) = [x EXCEPT !.neg = FALSE]

RECURSIVE ShortestDigits(_, _, _)
ShortestPick(x, ds, k, near, far) ==
  IF DenotesSame(x, near, Len(ds) - k) THEN <<near, k>>
  ELSE IF DenotesSame(x, far, Len(ds) - k) THEN <<far, k>>
  ELSE ShortestDigits(x, ds, k + 1)

\* lo is the first k digits of ds, hi the next k-digit value above
ShortestAround(x, ds, k, lo, hi) ==
  ShortestPick(x, ds, k,
               IF DigitVal(ds[k + 1]) >= 5 THEN hi ELSE lo,
               IF DigitVal(ds[k + 1]) >= 5 THEN lo ELSE hi)

ShortestFrom(x, ds, k, lo) == ShortestAround(x, ds, k, lo, BigAdd(lo, <<1>>))

ShortestDigits(x, ds, k) ==
  IF k >= Len(ds) THEN <<DigitsToBig(ds), Len(ds)>>
  ELSE ShortestFrom(x, ds, k, DigitsToBig(SubSeq(ds, 1, k)))

Mantissa(md) == IF Len(md) = 1 THEN md ELSE <<md[1], ".">> \o Tail(md)

\* the digits sd followed by zeros up to n digits, or sd as a mantissa
Notation(neg, sd, n) ==
  IF n <= 21
  THEN Sign(neg) \o sd \o [i \in 1..(n - Len(sd)) |-> "0"]
  ELSE Sign(neg) \o Mantissa(StripTrailingZeros(sd)) \o <<"e", "+">>
       \o BigChars(BigOfInt(n - 1))

ShortestNotation(neg, len, k, sd) == Notation(neg, sd, len + (Len(sd) - k))

\* ds are the exact digits of |x|: up to 15 digits are the shortest already
IntegerString(x, ds, sk) ==
  IF Len(ds) <= 15 THEN Sign(x.neg) \o ds
  ELSE ShortestNotation(x.neg, Len(ds), sk[2], BigChars(sk[1]))

IntegerDigits(x, ds) ==
  IntegerString(x, ds, IF Len(ds) <= 15 THEN <<>> ELSE ShortestDigits(x, ds, 1))

NumberToString(x) ==
  IF IsNaN(x) THEN <<"N", "a", "N">>
  ELSE IF IsZero(x) THEN <<"0">>
  ELSE IntegerDigits(x, BigChars(ShiftLeft(x.m, x.e)))

\* T is |significand| * 10^f: floor(T * 2^e + 1/2)
ScaledBy(T, e) ==
  IF e >= 0 THEN ShiftLeft(T, e)
  ELSE BigDivModSmall(BigAdd(ShiftRight(T, 0 - e - 1)[1], <<1>>), 2)[1]

\* the integer n for which n / 10^f - |x| is as close to zero as possible,
\* the larger n if there are two: floor(|x| * 10^f + 1/2)
RoundedScaled(x, f) == ScaledBy(BigMulPow10(x.m, f), x.e)

\* the digits with the decimal point before the last f of them
PointAt(padded, f) ==
  IF f = 0 THEN padded
  ELSE SubSeq(padded, 1, Len(padded) - f) \o <<".">>
       \o SubSeq(padded, Len(padded) - f + 1, Len(padded))

FixedString(neg, ds, f) ==
  Sign(neg) \o PointAt(IF Len(ds) <= f
                       THEN [i \in 1..(f + 1 - Len(ds)) |-> "0"] \o ds
                       ELSE ds, f)

\* Number.prototype.toFixed(f), f in 0..20; an undefined f is 0
ToFixed(x, f) ==
  IF IsNaN(x) THEN <<"N", "a", "N">>
  ELSE IF IsZero(x) THEN FixedString(FALSE, <<"0">>, f)
  ELSE IF AbsGeq(x, TenPow21) THEN NumberToString(x)
  ELSE FixedString(x.neg, BigChars(RoundedScaled(x, f)), f)

Unsigned(cs) == IF cs # <<>> /\ cs[1] \in {"-", "+"} THEN Tail(cs) ELSE cs

IntegerOf(neg, z) ==
  IF z = <<>> THEN NaN ELSE DecimalToNum(neg, DigitsToBig(z), 0)

\* parseInt(string) with no radix: the leading decimal digits, NaN if none
ParseInt(cs) == IntegerOf(cs[1] = "-", DigitPrefix(Unsigned(cs)))

HasPoint(r1) == r1 # <<>> /\ r1[1] = "."

HasExponent(r2) == r2 # <<>> /\ r2[1] \in {"e", "E"}

ExponentOf(r3, ed) ==
  IF ed = <<>> THEN 0
  ELSE IF r3[1] = "-" THEN 0 - SmallVal(ed) ELSE SmallVal(ed)

\* ip, fp: the digits before and after the point; expo: the exponent
FloatOf(neg, ip, fp, expo) ==
  IF ip = <<>> /\ fp = <<>> THEN NaN
  ELSE DecimalToNum(neg, DigitsToBig(ip \o fp), expo - Len(fp))

FloatExponent(neg, ip, fp, r2) ==
  FloatOf(neg, ip, fp,
          IF HasExponent(r2)
          THEN ExponentOf(Tail(r2), DigitPrefix(Unsigned(Tail(r2))))
          ELSE 0)

FloatFraction(neg, ip, r1, fp) ==
  FloatExponent(neg, ip, fp, IF HasPoint(r1) THEN Drop(r1, Len(fp) + 1) ELSE r1)

FloatPoint(neg, ip, r1) ==
  FloatFraction(neg, ip, r1, IF HasPoint(r1) THEN DigitPrefix(Tail(r1)) ELSE <<>>)

FloatInteger(neg, rest, ip) == FloatPoint(neg, ip, Drop(rest, Len(ip)))

FloatUnsigned(neg, rest) == FloatInteger(neg, rest, DigitPrefix(rest))

\* parseFloat(string): the longest prefix that is a decimal literal
ParseFloat(cs) == FloatUnsigned(cs[1] = "-", Unsigned(cs))

(***************************************************************************)
(* lib/unit.js                                                             *)
(***************************************************************************)
VARIABLES
  _value,      \* this._value of the Unit under observation (Undefined before)
  accessors,   \* the keys the constructor defined an accessor for
  writes,      \* how many times this._value was assigned
  made,        \* the arguments the Unit was constructed with
  call,        \* the last call: its name, arguments and outcome
  _bitcore,    \* global._bitcore
  exported,    \* how many submodules the last load attached to its exports
  loads        \* the outcome of every load of the aggregator, in order

vars == <<_value, accessors, writes, made, call, _bitcore, exported, loads>>

unitVars == <<_value, accessors, writes, made, call>>

guardVars == <<_bitcore, exported, loads>>

UNITS ==
  [ BLK      |-> <<DecimalToNum(FALSE, <<1>>, 8), 8>>,
    mBLK     |-> <<DecimalToNum(FALSE, <<1>>, 5), 5>>,
    uBLK     |-> <<DecimalToNum(FALSE, <<1>>, 2), 2>>,
    ratoshis |-> <<DecimalToNum(FALSE, <<1>>, 0), 0>> ]

\* Object.keys(UNITS)
UnitKeys == {"BLK", "mBLK", "uBLK", "ratoshis"}

\* UNITS is an object literal: it inherits the members of Object.prototype
ObjectPrototypeKeys ==
  { "constructor", "toString", "toLocaleString", "valueOf", "hasOwnProperty",
    "isPrototypeOf", "propertyIsEnumerable", "__proto__" }

NoError == [name |-> "none", arg |-> Undefined]
Return(v) == [ok |-> TRUE, val |-> v, err |-> NoError]
Throw(name, arg) == [ok |-> FALSE, val |-> Undefined, err |-> [name |-> name, arg |-> arg]]

\* _.isNumber
IsNumber(v) == v.k \in {"num", "NaN"}

\* _.isObject
IsObject(v) == v.k = "object"

\* a plain object with the properties named in has
Obj(has, amount, code) == [k |-> "object", has |-> has, amount |-> amount, code |-> code]

\* data.amount, data.code: undefined when the object has no such property
AmountOf(o) == IF "amount" \in o.has THEN o.amount ELSE Undefined
CodeOf(o) == IF "code" \in o.has THEN o.code ELSE Undefined

\* the property key a code is looked up under
PropertyKey(code) == IF code.k = "string" THEN code.s ELSE code.k

\* UNITS[code]
UnitsGet(code) ==
  IF PropertyKey(code) \in UnitKeys
  THEN [k |-> "array", v |-> UNITS[PropertyKey(code)]]
  ELSE IF PropertyKey(code) \in ObjectPrototypeKeys
  THEN [k |-> "inherited"]
  ELSE Undefined

Truthy(v) == v.k # "undefined"

\* UNITS[code][0]: undefined on an inherited member
ScaleOf(entry) == IF entry.k = "array" THEN entry.v[1] ELSE Undefined

\* a table whose every entry keeps two decimals
PrecisionOfCents(entry) == IF entry.k = "array" THEN 2 ELSE 0

\* UNITS[code][1] as toFixed reads it: an undefined digit count is 0
PrecisionOf(entry) == IF entry.k = "array" THEN entry.v[2] ELSE 0

\* Unit.prototype._from
UnitFrom(amount, code) ==
  IF ~Truthy(UnitsGet(code)) THEN Throw("UnknownCode", code)
  ELSE Return(ParseInt(ToFixed(
         NumMul(ToNumber(amount), ToNumber(ScaleOf(UnitsGet(code)))), 0)))

\* what a call of the constructor leaves behind, and the steps it took
Failed(err, steps) ==
  [ok |-> FALSE, err |-> err, value |-> Undefined, keys |-> {}, steps |-> steps]

\* this._value = r; Object.keys(UNITS).forEach(defineAccesor)
Built(r, steps) ==
  IF r.ok
  THEN [ok |-> TRUE, err |-> NoError, value |-> r.val, keys |-> UnitKeys,
        steps |-> steps \o <<"setValue", "defineAccessors">>]
  ELSE Failed(r.err, steps)

\* a constructor that tests the rate only after the amount was converted
UnitNewLateCheck(amount, code) ==
  IF IsNumber(code) /\ NumLeqZero(code)
  THEN Failed([name |-> "InvalidRate", arg |-> code], <<"divide", "lookup">>)
  ELSE Built(UnitFrom(IF IsNumber(code) THEN NumDiv(ToNumber(amount), code)
                      ELSE amount,
                      IF IsNumber(code) THEN Str("BLK") ELSE code),
             IF IsNumber(code) THEN <<"divide", "lookup">> ELSE <<"lookup">>)

\* function Unit(amount, code): a rate replaces amount by amount / code and
\* code by Unit.BLK before this._from(amount, code)
UnitNew(amount, code) ==
  IF IsNumber(code) /\ NumLeqZero(code)
  THEN Failed([name |-> "InvalidRate", arg |-> code], <<>>)
  ELSE Built(UnitFrom(IF IsNumber(code) THEN NumDiv(ToNumber(amount), code)
                      ELSE amount,
                      IF IsNumber(code) THEN Str("BLK") ELSE code),
             IF IsNumber(code) THEN <<"divide", "lookup">> ELSE <<"lookup">>)

\* a conversion that applies the rate to the atomic units, not to this.BLK
UnitToAtomicRate(v, acc, code) ==
  IF IsNumber(code)
  THEN IF NumLeqZero(code) THEN Throw("InvalidRate", code)
       ELSE Return(ParseFloat(ToFixed(NumMul(ToNumber(v), code), 2)))
  ELSE IF ~Truthy(UnitsGet(code)) THEN Throw("UnknownCode", code)
  ELSE Return(ParseFloat(ToFixed(
         NumDiv(v, ToNumber(ScaleOf(UnitsGet(code)))),
         PrecisionOf(UnitsGet(code)))))

\* Unit.prototype.to, and the accessor the constructor defines for key
RECURSIVE UnitTo(_, _, _)
Getter(v, acc, key) ==
  IF key \in acc THEN UnitTo(v, acc, Str(key)).val ELSE Undefined

UnitTo(v, acc, code) ==
  IF IsNumber(code)
  THEN IF NumLeqZero(code) THEN Throw("InvalidRate", code)
       ELSE Return(ParseFloat(ToFixed(
              NumMul(ToNumber(Getter(v, acc, "BLK")), code), 2)))
  ELSE IF ~Truthy(UnitsGet(code)) THEN Throw("UnknownCode", code)
  ELSE Return(ParseFloat(ToFixed(
         NumDiv(v, ToNumber(ScaleOf(UnitsGet(code)))),
         PrecisionOf(UnitsGet(code)))))

Text(cs) == [k |-> "text", cs |-> cs]

\* Unit.prototype.toString
UnitToString(v, acc) ==
  Text(NumberToString(ToNumber(Getter(v, acc, "ratoshis")))
       \o <<" ", "r", "a", "t", "o", "s", "h", "i", "s">>)

\* a serialization that reports the atomic units under their own code
UnitToObjectRaw(v, acc) == Obj({"amount", "code"}, v, Str("ratoshis"))

\* Unit.prototype.toObject, toJSON
UnitToObject(v, acc) ==
  Obj({"amount", "code"}, Getter(v, acc, "BLK"), Str("BLK"))

\* Unit.prototype.inspect
UnitInspect(v, acc) ==
  Text(<<"<", "U", "n", "i", "t", ":", " ">> \o UnitToString(v, acc).cs \o <<">">>)

(***************************************************************************)
(* The arguments the calls are made with.                                  *)
(***************************************************************************)
Lit(n, x) == DecimalToNum(FALSE, BigOfInt(n), x)
Minus(x) == [x EXCEPT !.neg = TRUE]

\* 3357027731227797
OddBig == DecimalToNum(FALSE, <<7797, 3122, 277, 3357>>, 0)

Amounts ==
  { Lit(1, 0), Lit(25, -1), Minus(Lit(25, -1)), Lit(1234567895, -9),
    Lit(1, 13), Lit(100000000, 0), Lit(1000000, 0), OddBig,
    Lit(1005, -3) }

FactoryAmounts == {Lit(1, 0), Lit(1000000, 0)}

GoodRates == {Lit(350, 0), Lit(1, 9)}
BadRates == {Zero(FALSE), Minus(Lit(1, 0))}
Rates == GoodRates \cup BadRates

GoodCodes == {Str(key) : key \in UnitKeys}
BadCodes == {Str("toString"), Str("constructor"), Str("XYZ"), Undefined}

CodeArgs == GoodCodes \cup BadCodes \cup Rates

DataInputs ==
  { Undefined, Str("1 BLK"), Lit(1, 0),
    Obj({}, Undefined, Undefined),
    Obj({"amount"}, Lit(1, 0), Undefined),
    Obj({"code"}, Undefined, Str("BLK")),
    Obj({"amount", "code"}, Lit(1, 0), Str("BLK")),
    Obj({"amount", "code"}, Lit(25, -1), Str("ratoshis")),
    Obj({"amount", "code"}, Lit(1, 0), Str("XYZ")),
    Obj({"amount", "code"}, Lit(1, 0), Zero(FALSE)),
    Obj({"amount", "code"}, Lit(1005, -3), Lit(350, 0)) }

(***************************************************************************)
(* The calls.  One Unit is under observation: a run makes one call of new  *)
(* Unit or of a static factory and, when that returned the Unit, any       *)
(* sequence of calls of its methods.                                       *)
(***************************************************************************)
NoCall ==
  [op |-> "none", args |-> <<>>, ok |-> TRUE, result |-> Undefined,
   err |-> NoError, steps |-> <<>>]

UnitObject(v) == [k |-> "Unit", _value |-> v]

\* a call that constructs the Unit: given are the amount and code the
\* constructor is handed, r is what it leaves behind
Constructs(op, args, given, r) ==
  /\ writes = 0
  /\ call.op = "none"
  /\ call' = [op |-> op, args |-> args, ok |-> r.ok,
              result |-> IF r.ok THEN UnitObject(r.value) ELSE Undefined,
              err |-> r.err, steps |-> r.steps]
  /\ _value' = IF r.ok THEN r.value ELSE _value
  /\ accessors' = IF r.ok THEN r.keys ELSE accessors
  /\ writes' = IF r.ok THEN writes + 1 ELSE writes
  /\ made' = IF r.ok THEN given ELSE made
  /\ UNCHANGED guardVars

\* a call of a method of the Unit, with its outcome r
Calls(op, args, r) ==
  /\ writes > 0
  /\ call' = [op |-> op, args |-> args, ok |-> r.ok, result |-> r.val,
              err |-> r.err, steps |-> <<>>]
  /\ UNCHANGED <<_value, accessors, writes, made>>
  /\ UNCHANGED guardVars

Given(amount, code) == [amount |-> amount, code |-> code]

New(amount, code) ==
  Constructs("new", <<amount, code>>, Given(amount, code), UnitNew(amount, code))

FromBLK(amount) ==
  Constructs("fromBLK", <<amount>>, Given(amount, Str("BLK")),
             UnitNew(amount, Str("BLK")))

FromMillis(amount) ==
  Constructs("fromMillis", <<amount>>, Given(amount, Str("mBLK")),
             UnitNew(amount, Str("mBLK")))

FromMicros(amount) ==
  Constructs("fromMicros", <<amount>>, Given(amount, Str("uBLK")),
             UnitNew(amount, Str("uBLK")))

FromRatoshis(amount) ==
  Constructs("fromRatoshis", <<amount>>, Given(amount, Str("ratoshis")),
             UnitNew(amount, Str("ratoshis")))

FromFiat(amount, rate) ==
  Constructs("fromFiat", <<amount, rate>>, Given(amount, rate),
             UnitNew(amount, rate))

\* Unit.fromObject
UnitFromObject(data) ==
  IF ~IsObject(data)
  THEN Failed([name |-> "InvalidArgument", arg |-> data], <<>>)
  ELSE UnitNew(AmountOf(data), CodeOf(data))

FromObject(data) ==
  Constructs("fromObject", <<data>>, Given(AmountOf(data), CodeOf(data)),
             UnitFromObject(data))

\* the Unit a call returned
Returned(op, args, r) ==
  [op |-> op, args |-> args, ok |-> r.ok,
   result |-> IF r.ok THEN UnitObject(r.value) ELSE Undefined,
   err |-> r.err, steps |-> r.steps]

\* Unit.fromObject(unit.toObject()): a second Unit, which the call returns
Revive ==
  /\ writes > 0
  /\ call.op = "toObject"
  /\ call' = Returned("fromObject(toObject)", <<call.result>>,
                      UnitFromObject(call.result))
  /\ UNCHANGED <<_value, accessors, writes, made>>
  /\ UNCHANGED guardVars

\* a call of a method that stores what it returns in the instance
CallsCaching(op, args, r) ==
  /\ writes > 0
  /\ call' = [op |-> op, args |-> args, ok |-> r.ok, result |-> r.val,
              err |-> r.err, steps |-> <<>>]
  /\ _value' = IF r.ok THEN r.val ELSE _value
  /\ writes' = IF r.ok THEN writes + 1 ELSE writes
  /\ UNCHANGED <<accessors, made>>
  /\ UNCHANGED guardVars

ToCaching(code) == CallsCaching("to", <<code>>, UnitTo(_value, accessors, code))

To(code) == Calls("to", <<code>>, UnitTo(_value, accessors, code))

ToBLK == Calls("toBLK", <<>>, UnitTo(_value, accessors, Str("BLK")))

ToMillis == Calls("toMillis", <<>>, UnitTo(_value, accessors, Str("mBLK")))

ToMicros == Calls("toMicros", <<>>, UnitTo(_value, accessors, Str("uBLK")))

ToRatoshis == Calls("toRatoshis", <<>>, UnitTo(_value, accessors, Str("ratoshis")))

AtRate(rate) == Calls("atRate", <<rate>>, UnitTo(_value, accessors, rate))

\* reading the accessor unit[key]
Get(key) == Calls("get", <<Str(key)>>, Return(Getter(_value, accessors, key)))

ToString == Calls("toString", <<>>, Return(UnitToString(_value, accessors)))

ToObject == Calls("toObject", <<>>, Return(UnitToObject(_value, accessors)))

Inspect == Calls("inspect", <<>>, Return(UnitInspect(_value, accessors)))

(***************************************************************************)
(* index.js: the module aggregator and its duplicate-load guard            *)
(***************************************************************************)
\* the require calls of the module body after the guard
NumSubmodules == 36

\* the copies of the library a process may load, by their package version
Versions == {"v0.13.19", "v0.13.7"}

\* how many loads a run makes
MaxLoads == 3

\* blackcore.versionGuard
VersionGuard(version) ==
  IF version # Undefined THEN Throw("Error", version) ELSE Return(Undefined)

\* a module body that sets the flag after its last require
LoadModuleFlagLast(flag, version, failAt) ==
  IF ~VersionGuard(flag).ok THEN <<"duplicate", flag, 0>>
  ELSE IF failAt > 0 THEN <<"failed", flag, failAt - 1>>
  ELSE <<"loaded", Str(version), NumSubmodules>>

\* the module body of the copy with this version; failAt is the require
\* that throws (0: none does).  <<outcome, global._bitcore, submodules attached>>
LoadModule(flag, version, failAt) ==
  IF ~VersionGuard(flag).ok THEN <<"duplicate", flag, 0>>
  ELSE IF failAt > 0 THEN <<"failed", Str(version), failAt - 1>>
  ELSE <<"loaded", Str(version), NumSubmodules>>

Load(version, failAt) ==
  /\ Len(loads) < MaxLoads
  /\ LET r == LoadModule(_bitcore, version, failAt)
     IN  /\ _bitcore' = r[2]
         /\ exported' = r[3]
         /\ loads' = Append(loads, [version |-> version, outcome |-> r[1],
                                    before |-> _bitcore, after |-> r[2],
                                    attached |-> r[3]])
  /\ UNCHANGED unitVars

Init ==
  /\ _value = Undefined
  /\ accessors = {}
  /\ writes = 0
  /\ made = [amount |-> Undefined, code |-> Undefined]
  /\ call = NoCall
  /\ _bitcore = Undefined
  /\ exported = 0
  /\ loads = <<>>

Next ==
  \/ \E a \in Amounts, c \in CodeArgs : New(a, c)
  \/ \E a \in FactoryAmounts : FromBLK(a)
  \/ \E a \in FactoryAmounts : FromMillis(a)
  \/ \E a \in FactoryAmounts : FromMicros(a)
  \/ \E a \in FactoryAmounts : FromRatoshis(a)
  \/ \E a \in Amounts, r \in Rates : FromFiat(a, r)
  \/ \E d \in DataInputs : FromObject(d)
  \/ Revive
  \/ \E c \in CodeArgs : To(c)
  \/ ToBLK
  \/ ToMillis
  \/ ToMicros
  \/ ToRatoshis
  \/ \E r \in Rates : AtRate(r)
  \/ \E key \in accessors : Get(key)
  \/ ToString
  \/ ToObject
  \/ Inspect

Spec == Init /\ [][Next]_vars

NextGuard == \E v \in Versions, failAt \in 0..NumSubmodules : Load(v, failAt)

SpecGuard == Init /\ [][NextGuard]_vars

(***************************************************************************)
(* What the claims are stated with.                                        *)
(***************************************************************************)

\* the code a conversion call converts to
TargetOf(c) ==
  IF c.op \in {"to", "get", "atRate"} THEN c.args[1]
  ELSE IF c.op = "toBLK" THEN Str("BLK")
  ELSE IF c.op = "toMillis" THEN Str("mBLK")
  ELSE IF c.op = "toMicros" THEN Str("uBLK")
  ELSE IF c.op = "toRatoshis" THEN Str("ratoshis")
  ELSE Undefined

\* the code or rate a construction call is given
CodeGiven(c) ==
  IF c.op \in {"new", "fromFiat"} THEN c.args[2]
  ELSE IF c.op = "fromBLK" THEN Str("BLK")
  ELSE IF c.op = "fromMillis" THEN Str("mBLK")
  ELSE IF c.op = "fromMicros" THEN Str("uBLK")
  ELSE IF c.op = "fromRatoshis" THEN Str("ratoshis")
  ELSE Undefined

IsInteger(x) == x.k = "num" /\ x.e >= 0

\* the natural |x| of an integer-valued x
Magnitude(x) == ShiftLeft(x.m, x.e)

\* x rounded to the nearest integer, ties away from zero
RoundHalfAwayFromZero(x) ==
  IF IsNaN(x) THEN NaN
  ELSE IF IsZero(x) THEN x
  ELSE DecimalToNum(x.neg, RoundedScaled(x, 0), 0)

\* |x| < |y| for finite x and finite nonzero y
AbsLess(x, y) == x.k = "num" /\ (IsZero(x) \/ ~AbsGeq(x, y))

\* how many hundredths lie between x and y, each rounded to two decimals
CentsApart(x, y) ==
  LET nx == IF IsZero(x) THEN <<>> ELSE RoundedScaled(x, 2)
      ny == IF IsZero(y) THEN <<>> ELSE RoundedScaled(y, 2)
  IN  IF nx # <<>> /\ ny # <<>> /\ x.neg # y.neg THEN BigAdd(nx, ny)
      ELSE IF BigCmp(nx, ny) >= 0 THEN BigSub(nx, ny)
      ELSE BigSub(ny, nx)

WithinCent(x, y) ==
  x.k = "num" /\ y.k = "num" /\ BigCmp(CentsApart(x, y), <<1>>) <= 0

\* C1: new Unit(amount, c) and to(c) with a code c that is not a number and
\* not one of BLK, mBLK, uBLK, ratoshis always fail with UnknownCode,
\* 'toString', 'constructor' and undefined included.
C1_UnknownCodeAlwaysFails ==
  (/\ call.op \in {"new", "to"}
   /\ ~IsNumber(IF call.op = "new" THEN CodeGiven(call) ELSE TargetOf(call))
   /\ (IF call.op = "new" THEN CodeGiven(call) ELSE TargetOf(call)) \notin GoodCodes)
    => (~call.ok /\ call.err.name = "UnknownCode")

\* C2: a rate r <= 0 makes new Unit(amount, r), fromFiat(amount, r), to(r)
\* and atRate(r) fail with InvalidRate(r); a construction fails before the
\* division, the lookup and the writes of the instance, and a conversion
\* leaves the magnitude as it was.
C2_Fails ==
  /\ (/\ call.op \in {"new", "fromFiat"}
      /\ IsNumber(CodeGiven(call))
      /\ NumLeqZero(CodeGiven(call)))
       => /\ ~call.ok
          /\ call.err = [name |-> "InvalidRate", arg |-> CodeGiven(call)]
          /\ call.steps = <<>>
          /\ writes = 0
          /\ _value = Undefined
          /\ accessors = {}
  /\ (/\ call.op \in {"to", "atRate"}
      /\ IsNumber(TargetOf(call))
      /\ NumLeqZero(TargetOf(call)))
       => /\ ~call.ok
          /\ call.err = [name |-> "InvalidRate", arg |-> TargetOf(call)]

C2_Unchanged ==
  (/\ call'.op \in {"to", "atRate"}
   /\ IsNumber(TargetOf(call'))
   /\ NumLeqZero(TargetOf(call')))
    => _value' = _value

C2_InvalidRate == [] C2_Fails /\ [][C2_Unchanged]_vars

C2_Witness ==
  /\ call.op = "fromFiat"
  /\ call.args[2] = Zero(FALSE)
  /\ call.err.name = "InvalidRate"
  /\ writes = 0


\* C3: for every numeric amount and recognized code with scale s the
\* constructor sets the magnitude to amount * s rounded to the nearest
\* integer, ties away from zero, whatever the size of amount * s, and the
\* magnitude is an integer.
C3_RoundsHalfAwayFromZero ==
  (writes > 0 /\ IsNumber(made.amount) /\ made.code \in GoodCodes)
    => /\ IsInteger(_value)
       /\ NumEq(_value, RoundHalfAwayFromZero(
                  NumMul(made.amount, ScaleOf(UnitsGet(made.code)))))

\* C4: to(d), the wrappers and the accessor d return the magnitude divided
\* by scale(d), rounded to precision(d) decimals; and a Unit made from a
\* whole number of atomic units, a in denomination c, converts to
\* a * scale(c) / scale(d).
C4_ConvertsByScale ==
  (/\ call.op \in {"to", "toBLK", "toMillis", "toMicros", "toRatoshis", "get"}
   /\ TargetOf(call) \in GoodCodes
   /\ IsInteger(_value))
    => /\ call.ok
       /\ NumEq(call.result,
                DecimalToNum(_value.neg, Magnitude(_value),
                             0 - PrecisionOf(UnitsGet(TargetOf(call)))))
       /\ (/\ made.code \in GoodCodes
           /\ IsNumber(made.amount)
           /\ IsInteger(NumMul(made.amount, ScaleOf(UnitsGet(made.code)))))
            => NumEq(call.result,
                     NumDiv(NumMul(made.amount, ScaleOf(UnitsGet(made.code))),
                            ScaleOf(UnitsGet(TargetOf(call)))))

\* the rates and amounts for which one atomic unit is worth at most a
\* hundredth and the arithmetic stays far inside the exact range
RateInRange(r) ==
  r.k = "num" /\ ~r.neg /\ ~IsZero(r) /\ AbsGeq(r, Lit(1, 0)) /\ AbsGeq(Lit(1, 6), r)

AmountInRange(a) == a.k = "num" /\ (IsZero(a) \/ AbsGeq(Lit(1, 9), a))

FiatRoundTrip ==
  /\ call.op = "atRate"
  /\ IsNumber(made.code)
  /\ IsNumber(made.amount)
  /\ call.args[1] = made.code

\* C5 as stated: for every fiat amount A and every positive rate R,
\* fromFiat(A, R).atRate(R) is within 0.01 of A rounded to two decimals,
\* whatever the size of R.
C5_FiatRoundTripAnyRate ==
  FiatRoundTrip => (call.ok /\ WithinCent(call.result, made.amount))

\* C5, amended: for every fiat amount A with |A| <= 10^9 and every rate R
\* with 1 <= R <= 10^6, fromFiat(A, R).atRate(R) is within 0.01 of A rounded
\* to two decimals.
C5_FiatRoundTripInRange ==
  (FiatRoundTrip /\ RateInRange(made.code) /\ AmountInRange(made.amount))
    => (call.ok /\ WithinCent(call.result, made.amount))

C5_Witness ==
  /\ FiatRoundTrip
  /\ made.amount = Lit(1005, -3)
  /\ made.code = Lit(350, 0)
  /\ call.ok
  /\ WithinCent(call.result, made.amount)


\* C6: however the Unit was constructed, toObject() returns a record whose
\* code is BLK and whose amount is to(BLK) of the Unit; the code or rate of
\* the construction does not appear in it.
C6_ToObjectIsPrimary ==
  call.op = "toObject"
    => /\ call.ok
       /\ call.result.has = {"amount", "code"}
       /\ call.result.code = Str("BLK")
       /\ call.result.amount = UnitTo(_value, accessors, Str("BLK")).val

C6_Witness ==
  /\ call.op = "toObject"
  /\ made.code = Lit(350, 0)
  /\ made.amount = Lit(1, 0)
  /\ call.result.code = Str("BLK")
  /\ call.result.amount = Lit(285714, -8)

\* C7: _value is written once, by the constructor; no operation of the
\* instance changes it afterwards, whether it returns or throws, and two
\* reads of one accessor in a row return the same.
C7_NeverRewritten ==
  /\ writes > 0 => (writes' = writes /\ _value' = _value)
  /\ (call.op = "get" /\ call'.op = "get" /\ call'.args = call.args)
       => call'.result = call.result

C7_WrittenOnce == [] (writes <= 1) /\ [][C7_NeverRewritten]_vars

C7_Witness ==
  /\ writes = 1
  /\ call.op = "to"
  /\ call.err.name = "UnknownCode"
  /\ _value = Lit(1, 8)

\* C8: Unit.fromObject(data) fails with the argument error, before any
\* validation of the code or rate, whenever data is not an object or is an
\* object without amount or without code; it never returns a Unit then.
C8_FromObjectNeedsBothFields ==
  (/\ call.op = "fromObject"
   /\ \/ ~IsObject(call.args[1])
      \/ call.args[1].has # {"amount", "code"})
    => /\ ~call.ok
       /\ call.err.name = "InvalidArgument"
       /\ call.steps = <<>>
       /\ writes = 0

\* 2^51
ExactRange == Fin(FALSE, <<1>>, 51)

RoundTripHolds ==
  /\ call.op = "fromObject(toObject)"
       => (call.ok /\ NumEq(call.result._value, _value))
  /\ (/\ call.op \in {"to", "toBLK", "toMillis", "toMicros", "toRatoshis", "get"}
      /\ TargetOf(call) \in GoodCodes)
       => /\ call.ok
          /\ UnitFrom(call.result, TargetOf(call)).ok
          /\ NumEq(UnitFrom(call.result, TargetOf(call)).val, _value)

\* C9 as stated: for every Unit with an integer magnitude m,
\* Unit.fromObject(u.toObject()) returns a Unit with magnitude m, and for
\* every recognized code d, to(d) * scale(d) rounds back to m.
C9_RoundTripAnyMagnitude ==
  (writes > 0 /\ IsInteger(_value)) => RoundTripHolds

\* C9, amended: for every Unit with an integer magnitude m, |m| < 2^51,
\* Unit.fromObject(u.toObject()) returns a Unit with magnitude m, and for
\* every recognized code d, to(d) * scale(d) rounds back to m.
C9_RoundTripInExactRange ==
  (writes > 0 /\ IsInteger(_value) /\ AbsLess(_value, ExactRange))
    => RoundTripHolds

C9_Witness ==
  /\ call.op = "fromObject(toObject)"
  /\ _value = Lit(123456790, 0)
  /\ call.args[1].amount = Lit(123456790, -8)
  /\ call.ok
  /\ call.result._value = _value

\* C10: over any sequence of loads in one process the first load finds the
\* flag undefined, passes the guard and sets the flag to its version, also
\* when one of its requires then fails; every later load finds the flag set
\* and fails as a duplicate without changing it; the flag is never reset.
C10_Loads ==
  /\ _bitcore = IF loads = <<>> THEN Undefined ELSE Str(loads[1].version)
  /\ \A i \in 1..Len(loads) :
       IF i = 1
       THEN /\ loads[i].before = Undefined
            /\ loads[i].outcome \in {"loaded", "failed"}
            /\ loads[i].after = Str(loads[i].version)
       ELSE /\ loads[i].before # Undefined
            /\ loads[i].outcome = "duplicate"
            /\ loads[i].after = loads[i].before
            /\ loads[i].attached = 0

C10_NeverReset == _bitcore # Undefined => _bitcore' = _bitcore

C10_DuplicateLoadGuard == [] C10_Loads /\ [][C10_NeverReset]_vars

C10_Witness ==
  /\ Len(loads) >= 2
  /\ loads[1].outcome = "failed"
  /\ loads[1].attached = 7
  /\ loads[2].outcome = "duplicate"
  /\ loads[2].version # loads[1].version
  /\ _bitcore = Str(loads[1].version)

====
